---- MODULE Spec2Model ----
(***************************************************************************)
(* Model of automated-snapshot.py: one run of the EBS snapshot script.     *)
(* The run discovers the volumes carrying the configured tag, and for each *)
(* volume creates a snapshot and then deletes that volume's tagged         *)
(* snapshots older than the retention window; it ends by publishing one    *)
(* SNS message.  EC2 and SNS are the environment: every remote call may    *)
(* succeed or raise, and the clock may advance between any two steps.      *)
(***************************************************************************)
EXTENDS Integers, Sequences, FiniteSets, TLC

VARIABLES
    cfgSource,   \* the config.py found on the import path (fixed for the run)
    config,      \* the module-level `config` dict
    volTags,     \* EC2: tags of the volumes that exist in the account
    inventory,   \* EC2: the snapshots that currently exist
    now,         \* the clock (datetime.utcnow and the EC2 server clock)
    pc,          \* position of main
    volumes,     \* main: the list returned by get_volumes
    idx,         \* main: position of the for loop over volumes (1-based)
    snap_ids,    \* main: identifiers of the snapshots created so far
    cutoff,      \* cleanup_snapshots: the local `cutoff`
    todo,        \* cleanup_snapshots: snapshots the for loop has not reached yet
    calls,       \* log of the remote calls issued, per operation
    failed       \* TRUE once any remote call of the run has raised

vars == <<cfgSource, config, volTags, inventory, now, pc, volumes, idx,
          snap_ids, cutoff, todo, calls, failed>>

----------------------------------------------------------------------------
(* Bounds of the model *)

\* clock ticks per day: the resolution in which timestamps are compared
TicksPerDay == 2

\* how many ticks the clock may advance during one run
MaxTicks == 1

\* how many snapshots exist when the run starts
MaxInitSnaps == 2

----------------------------------------------------------------------------
(* Configuration *)

None == "None"

Keys == {"tagname", "tagvalues", "retention_days", "sns_topic"}

DEFAULT_CONFIG ==
    [tagname |-> "Snapshot", tagvalues |-> {"Yes"},
     retention_days |-> 7, sns_topic |-> None]

\* retention_days values a config.py of the model sets
RetentionChoices == {0, 1}

\* the complete dicts a config.py of the model is cut from
FullConfigs ==
    {[tagname |-> "Backup", tagvalues |-> {"Daily", "Weekly"},
      retention_days |-> rd, sns_topic |-> "arn:aws:sns:topic"]
        : rd \in RetentionChoices}

Restrict(f, D) == [k \in D |-> f[k]]

\* config.py as found by importlib: absent, raising on import (or without
\* a `config` attribute), or defining `config` with any subset of the keys
ConfigSources ==
    {[kind |-> "missing", dict |-> <<>>], [kind |-> "broken", dict |-> <<>>]}
    \cup {[kind |-> "loaded", dict |-> Restrict(f, D)]
            : f \in FullConfigs, D \in SUBSET Keys}

load_config(src) ==
    IF src.kind = "loaded" THEN src.dict ELSE DEFAULT_CONFIG

\* dict.get(key, default)
Get(d, k, default) == IF k \in DOMAIN d THEN d[k] ELSE default

----------------------------------------------------------------------------
(* The EC2 account *)

VolIds == <<"vol-1", "vol-2">>

\* a volume that no longer exists; only its snapshots remain
GoneVol == "vol-0"

Tagged == {<<"Snapshot", "Yes">>, <<"Backup", "Daily">>}
Untagged == {<<"Snapshot", "No">>, <<"Backup", "Monthly">>}

\* the tag sets of vol-1 and vol-2: both carry the tag (under either
\* configuration), only vol-1 does, or neither does
VolTagChoices ==
    {[v \in {"vol-1", "vol-2"} |-> IF v = "vol-1" THEN t[1] ELSE t[2]]
        : t \in {<<Tagged, Tagged>>, <<Tagged, Untagged>>,
                 <<Untagged, Untagged>>}}

\* the clock when the run starts
T0 == 8 * TicksPerDay

MaxNow == T0 + MaxTicks

Snap(id, vol, start, tags, owner) ==
    [SnapshotId |-> id, VolumeId |-> vol, StartTime |-> start,
     Tags |-> tags, OwnerId |-> owner]

\* the snapshots an account of the model may hold when the run starts:
\* of vol-1 an old one, one a tick short of a day old, an old one whose tag
\* has another value under the default key and is missing under "Backup",
\* and an old one of another owner; an old one of vol-2; an old one of a
\* volume that no longer exists
Catalogue ==
    { Snap("snap-a", "vol-1", 0, Tagged, "self"),
      Snap("snap-c", "vol-1", T0 - TicksPerDay + 1, Tagged, "self"),
      Snap("snap-d", "vol-1", 0, {<<"Snapshot", "No">>}, "self"),
      Snap("snap-f", "vol-1", 0, Tagged, "other"),
      Snap("snap-g", "vol-2", 0, Tagged, "self"),
      Snap("snap-h", GoneVol, 0, Tagged, "self") }

Inventories == {I \in SUBSET Catalogue : Cardinality(I) <= MaxInitSnaps}

\* the identifier EC2 assigns to the snapshot created for a volume
NewSnapshotId(vol) == IF vol = "vol-1" THEN "snap-n1" ELSE "snap-n2"

\* a Filters entry {'Name': 'tag:<key>', 'Values': values} matches a tag set
TagFilterMatches(tags, key, values) ==
    \E t \in tags : t[1] = key /\ t[2] \in values

----------------------------------------------------------------------------
(* Pure helpers of the script *)

\* timedelta(days=n), in clock ticks
Days(n) == n * TicksPerDay

\* int(config.get('retention_days', 7))
RetentionDays(cfg) == Get(cfg, "retention_days", 7)

\* cutoff = datetime.utcnow() - timedelta(days=retention_days)
Cutoff(t, cfg) == t - Days(RetentionDays(cfg))

ExpiredInclusive(snap, cut) == snap.StartTime <= cut

\* if start_time < cutoff
Expired(snap, cut) == snap.StartTime < cut

\* the filter get_volumes and cleanup_snapshots build; both subscript the
\* dict, which raises KeyError when the key is absent
HasFilterKeys(cfg) == "tagname" \in DOMAIN cfg /\ "tagvalues" \in DOMAIN cfg

TagFilter(cfg) == [key |-> cfg["tagname"], values |-> cfg["tagvalues"]]

\* ec2.describe_volumes(Filters=filters)['Volumes']
DescribeVolumes(tags, filter) ==
    SelectSeq(VolIds,
              LAMBDA v : TagFilterMatches(tags[v], filter.key, filter.values))

\* ec2.describe_snapshots(Filters=[volume-id, tag:<key>], OwnerIds=['self'])
DescribeSnapshots(inv, vol, filter) ==
    {s \in inv : /\ s.VolumeId = vol
                 /\ TagFilterMatches(s.Tags, filter.key, filter.values)
                 /\ s.OwnerId = "self"}

MainAfterDiscoverNotify(vols) == IF vols = <<>> THEN "notify" ELSE "create"

\* main: if not volumes: return
MainAfterDiscover(vols) == IF vols = <<>> THEN "done" ELSE "create"

AppendIdAlways(ids, snap_id) == Append(ids, snap_id)

\* main: if snap_id: snap_ids.append(snap_id)
AppendId(ids, snap_id) == IF snap_id # None THEN Append(ids, snap_id) ELSE ids

AfterCreateFailureEscapes == "done"

\* create_snapshot's except clause returns None and main goes on to the
\* volume's cleanup
AfterCreateFailure == "cleanup"

AfterPublishFailureRaises == "fault"

\* send_notification's except clause logs and returns; main then returns
AfterPublishFailure == "done"

\* the summary main builds: the count is present only when something was
\* created
Message(ids) ==
    IF ids # <<>>
    THEN [count |-> <<Len(ids)>>, text |-> " snapshot(s) created: ", ids |-> ids]
    ELSE [count |-> <<>>, text |-> "No snapshots created.", ids |-> <<>>]

\* send_notification: if not topic_arn: return
ShouldPublish(topic) == topic # None

\* the position of main once the cleanup of volumes[i] has returned
NextVolumePc(i, vols) == IF i < Len(vols) THEN "create" ELSE "notify"

NextVolumeIdx(i, vols) == IF i < Len(vols) THEN i + 1 ELSE i

----------------------------------------------------------------------------
(* Initial state: the module has been imported, config loaded *)

NoCalls ==
    [describe_volumes |-> <<>>, create |-> <<>>, list |-> <<>>,
     compared |-> {}, delete |-> {}, publish |-> <<>>]

Init ==
    /\ cfgSource \in ConfigSources
    /\ config = load_config(cfgSource)
    /\ volTags \in VolTagChoices
    /\ inventory \in Inventories
    /\ now = T0
    /\ pc = "discover"
    /\ volumes = <<>>
    /\ idx = 1
    /\ snap_ids = <<>>
    /\ cutoff = 0
    /\ todo = {}
    /\ calls = NoCalls
    /\ failed = FALSE

----------------------------------------------------------------------------
(* main, get_volumes *)

\* config lacks tagname or tagvalues: building the filter raises KeyError,
\* get_volumes returns [] and main returns
DiscoverKeyError ==
    /\ pc = "discover"
    /\ ~HasFilterKeys(config)
    /\ volumes' = <<>>
    /\ pc' = MainAfterDiscover(<<>>)
    /\ UNCHANGED <<cfgSource, config, volTags, inventory, now, idx, snap_ids,
                   cutoff, todo, calls, failed>>

DiscoverOk ==
    /\ pc = "discover"
    /\ HasFilterKeys(config)
    /\ LET vols == DescribeVolumes(volTags, TagFilter(config))
       IN /\ volumes' = vols
          /\ pc' = MainAfterDiscover(vols)
    /\ calls' = [calls EXCEPT !.describe_volumes =
                    Append(@, [filter |-> TagFilter(config), ok |-> TRUE])]
    /\ UNCHANGED <<cfgSource, config, volTags, inventory, now, idx, snap_ids,
                   cutoff, todo, failed>>

\* describe_volumes raises: get_volumes returns []
DiscoverFail ==
    /\ pc = "discover"
    /\ HasFilterKeys(config)
    /\ volumes' = <<>>
    /\ pc' = MainAfterDiscover(<<>>)
    /\ calls' = [calls EXCEPT !.describe_volumes =
                    Append(@, [filter |-> TagFilter(config), ok |-> FALSE])]
    /\ failed' = TRUE
    /\ UNCHANGED <<cfgSource, config, volTags, inventory, now, idx, snap_ids,
                   cutoff, todo>>

----------------------------------------------------------------------------
(* create_snapshot *)

CreateOk ==
    /\ pc = "create"
    /\ LET vol == volumes[idx]
           snap == Snap(NewSnapshotId(vol), vol, now, volTags[vol], "self")
       IN /\ inventory' = inventory \cup {snap}
          /\ snap_ids' = AppendId(snap_ids, snap.SnapshotId)
          /\ calls' = [calls EXCEPT !.create =
                          Append(@, [vol |-> vol, ok |-> TRUE, snap |-> {snap}])]
    /\ pc' = "cleanup"
    /\ UNCHANGED <<cfgSource, config, volTags, now, volumes, idx, cutoff, todo,
                   failed>>

CreateFail ==
    /\ pc = "create"
    /\ snap_ids' = AppendId(snap_ids, None)
    /\ calls' = [calls EXCEPT !.create =
                    Append(@, [vol |-> volumes[idx], ok |-> FALSE, snap |-> {}])]
    /\ failed' = TRUE
    /\ pc' = AfterCreateFailure
    /\ UNCHANGED <<cfgSource, config, volTags, inventory, now, volumes, idx,
                   cutoff, todo>>

----------------------------------------------------------------------------
(* cleanup_snapshots *)

\* cutoff is computed, describe_snapshots returns, the for loop starts
CleanupListOk ==
    /\ pc = "cleanup"
    /\ LET vol == volumes[idx]
           cut == Cutoff(now, config)
       IN /\ cutoff' = cut
          /\ todo' = DescribeSnapshots(inventory, vol, TagFilter(config))
          /\ calls' = [calls EXCEPT !.list =
                          Append(@, [vol |-> vol, at |-> now, ok |-> TRUE])]
    /\ pc' = "loop"
    /\ UNCHANGED <<cfgSource, config, volTags, inventory, now, volumes, idx,
                   snap_ids, failed>>

\* describe_snapshots raises: the except clause ends the volume's cleanup
CleanupListFail ==
    /\ pc = "cleanup"
    /\ cutoff' = Cutoff(now, config)
    /\ calls' = [calls EXCEPT !.list =
                    Append(@, [vol |-> volumes[idx], at |-> now, ok |-> FALSE])]
    /\ failed' = TRUE
    /\ pc' = NextVolumePc(idx, volumes)
    /\ idx' = NextVolumeIdx(idx, volumes)
    /\ UNCHANGED <<cfgSource, config, volTags, inventory, now, volumes,
                   snap_ids, todo>>

\* one iteration over a snapshot that is not older than the cutoff
LoopKeep ==
    /\ pc = "loop"
    /\ \E snap \in todo :
          /\ ~Expired(snap, cutoff)
          /\ todo' = todo \ {snap}
          /\ calls' = [calls EXCEPT !.compared =
                          @ \cup {[snap |-> snap, cutoff |-> cutoff]}]
    /\ UNCHANGED <<cfgSource, config, volTags, inventory, now, pc, volumes,
                   idx, snap_ids, cutoff, failed>>

\* one iteration whose delete_snapshot succeeds
LoopDeleteOk ==
    /\ pc = "loop"
    /\ \E snap \in todo :
          /\ Expired(snap, cutoff)
          /\ todo' = todo \ {snap}
          /\ inventory' = inventory \ {snap}
          /\ calls' = [calls EXCEPT
                          !.compared = @ \cup {[snap |-> snap, cutoff |-> cutoff]},
                          !.delete = @ \cup {[snap |-> snap, ok |-> TRUE]}]
    /\ UNCHANGED <<cfgSource, config, volTags, now, pc, volumes, idx, snap_ids,
                   cutoff, failed>>

\* one iteration whose delete_snapshot raises: the except clause encloses
\* the whole loop, so the rest of the list is abandoned
LoopDeleteFail ==
    /\ pc = "loop"
    /\ \E snap \in todo :
          /\ Expired(snap, cutoff)
          /\ calls' = [calls EXCEPT
                          !.compared = @ \cup {[snap |-> snap, cutoff |-> cutoff]},
                          !.delete = @ \cup {[snap |-> snap, ok |-> FALSE]}]
    /\ todo' = {}
    /\ failed' = TRUE
    /\ pc' = NextVolumePc(idx, volumes)
    /\ idx' = NextVolumeIdx(idx, volumes)
    /\ UNCHANGED <<cfgSource, config, volTags, inventory, now, volumes,
                   snap_ids, cutoff>>

\* the list is exhausted: cleanup_snapshots returns
LoopEnd ==
    /\ pc = "loop"
    /\ todo = {}
    /\ pc' = NextVolumePc(idx, volumes)
    /\ idx' = NextVolumeIdx(idx, volumes)
    /\ UNCHANGED <<cfgSource, config, volTags, inventory, now, volumes,
                   snap_ids, cutoff, todo, calls, failed>>

----------------------------------------------------------------------------
(* send_notification *)

NotifySkip ==
    /\ pc = "notify"
    /\ ~ShouldPublish(Get(config, "sns_topic", None))
    /\ pc' = "done"
    /\ UNCHANGED <<cfgSource, config, volTags, inventory, now, volumes, idx,
                   snap_ids, cutoff, todo, calls, failed>>

NotifyOk ==
    /\ pc = "notify"
    /\ ShouldPublish(Get(config, "sns_topic", None))
    /\ calls' = [calls EXCEPT !.publish =
                    Append(@, [topic |-> Get(config, "sns_topic", None),
                               msg |-> Message(snap_ids), ok |-> TRUE])]
    /\ pc' = "done"
    /\ UNCHANGED <<cfgSource, config, volTags, inventory, now, volumes, idx,
                   snap_ids, cutoff, todo, failed>>

NotifyFail ==
    /\ pc = "notify"
    /\ ShouldPublish(Get(config, "sns_topic", None))
    /\ calls' = [calls EXCEPT !.publish =
                    Append(@, [topic |-> Get(config, "sns_topic", None),
                               msg |-> Message(snap_ids), ok |-> FALSE])]
    /\ failed' = TRUE
    /\ pc' = AfterPublishFailure
    /\ UNCHANGED <<cfgSource, config, volTags, inventory, now, volumes, idx,
                   snap_ids, cutoff, todo>>

----------------------------------------------------------------------------
(* The environment: time passes while the run is in progress *)

Tick ==
    /\ pc # "done"
    /\ now < MaxNow
    /\ now' = now + 1
    /\ UNCHANGED <<cfgSource, config, volTags, inventory, pc, volumes, idx,
                   snap_ids, cutoff, todo, calls, failed>>

Run ==
    \/ DiscoverKeyError \/ DiscoverOk \/ DiscoverFail
    \/ CreateOk \/ CreateFail
    \/ CleanupListOk \/ CleanupListFail
    \/ LoopKeep \/ LoopDeleteOk \/ LoopDeleteFail \/ LoopEnd
    \/ NotifySkip \/ NotifyOk \/ NotifyFail

Next == Run \/ Tick

Spec == Init /\ [][Next]_vars

\* the interpreter always takes the next step of the script
FairSpec == Spec /\ WF_vars(Run)

----------------------------------------------------------------------------
(* Vocabulary of the properties *)

\* the volumes discovery returned
Discovered == {volumes[i] : i \in 1..Len(volumes)}

\* every snapshot that has existed during the run
AllSnaps == inventory \cup {d.snap : d \in calls.delete}

\* number of records of a call log that are about volume v
Count(log, v) == Cardinality({i \in 1..Len(log) : log[i].vol = v})

\* snapshot s carries the configured tag key with an accepted value
CarriesTag(s) ==
    TagFilterMatches(s.Tags, config["tagname"], config["tagvalues"])

\* the instants at which the cleanup of volume v evaluated utcnow()
CleanupTimes(v) ==
    {calls.list[i].at : i \in {j \in 1..Len(calls.list) : calls.list[j].vol = v}}

\* s is older than the retention window as evaluated for its volume's cleanup
OlderThanCutoff(s) ==
    \E t \in CleanupTimes(s.VolumeId) :
        s.StartTime < t - Days(RetentionDays(config))

\* s is what the retention policy deletes: owned, of a discovered volume,
\* tagged, and older than the cutoff
Qualifies(s) ==
    /\ s.OwnerId = "self"
    /\ s.VolumeId \in Discovered
    /\ CarriesTag(s)
    /\ OlderThanCutoff(s)

DeleteIssued(s) == \E d \in calls.delete : d.snap = s

\* the snapshots this run created
CreatedSnaps ==
    UNION {calls.create[i].snap : i \in 1..Len(calls.create)}

\* identifiers returned by the create-snapshot calls that succeeded, in order
CreatedIds ==
    LET okCalls == SelectSeq(calls.create, LAMBDA c : c.ok)
    IN [i \in 1..Len(okCalls) |-> NewSnapshotId(okCalls[i].vol)]

----------------------------------------------------------------------------
(* C1 *)

\* C1: delete-snapshot is issued only for caller-owned snapshots of a
\* discovered volume that carry the configured tag with an accepted value
\* and are strictly older than (now - retention_days) of that volume's
\* cleanup; and a run without failed remote calls has issued it for every
\* such snapshot by the time it ends.
C1_DeletesExactlyExpiredTagged ==
    /\ \A d \in calls.delete : Qualifies(d.snap)
    /\ (pc = "done" /\ ~failed) =>
          \A s \in AllSnaps : Qualifies(s) => DeleteIssued(s)

\* a finished run without failures that deleted a snapshot, kept one created
\* exactly at the cutoff, and kept an older one whose tag does not match
C1_Witness ==
    /\ pc = "done" /\ ~failed
    /\ calls.delete # {}
    /\ \E c \in calls.compared : c.snap.StartTime = c.cutoff /\ c.snap \in inventory
    /\ \E s \in inventory :
          /\ s.VolumeId \in Discovered /\ s.OwnerId = "self"
          /\ ~CarriesTag(s)
          /\ s.StartTime < T0 - Days(RetentionDays(config))

----------------------------------------------------------------------------
(* C2 *)

\* C2: a failing delete-snapshot is swallowed per snapshot: when the run has
\* ended, delete-snapshot has been attempted for every snapshot of a volume
\* whose listing succeeded that qualifies for deletion, whatever deletes
\* failed.
C2_DeleteFailureSkipsOnlyThatSnapshot ==
    pc = "done" =>
        \A i \in 1..Len(calls.list) :
            calls.list[i].ok =>
                \A s \in AllSnaps :
                    (s.VolumeId = calls.list[i].vol /\ Qualifies(s))
                        => DeleteIssued(s)

----------------------------------------------------------------------------
(* C3 *)

\* C3: the cutoff is fixed once per run: all snapshots the run compares,
\* across all volumes, are compared against the same cutoff.
C3_OneCutoffPerRun ==
    \A c1, c2 \in calls.compared : c1.cutoff = c2.cutoff

----------------------------------------------------------------------------
(* C4 *)

\* C4: a run without failed remote calls deletes every caller-owned snapshot
\* that carries the configured tag and is older than the cutoff, also when
\* its source volume is not among the discovered volumes.
C4_OrphanedSnapshotsDeleted ==
    (pc = "done" /\ ~failed /\ HasFilterKeys(config)) =>
        \A s \in AllSnaps :
            ( /\ s.OwnerId = "self"
              /\ CarriesTag(s)
              /\ s.StartTime < T0 - Days(RetentionDays(config)) )
                => DeleteIssued(s)

----------------------------------------------------------------------------
(* C5 *)

\* C5: whatever calls fail, each discovered volume gets exactly one
\* create-snapshot attempt and exactly one cleanup attempt: none before the
\* loop reaches the volume, one of each once the loop has passed it.
C5_OneCreateOneCleanupPerVolume ==
    \A i \in 1..Len(volumes) :
        LET v == volumes[i]
            passed == pc \in {"notify", "done"} \/ i < idx
            created == passed \/ (i = idx /\ pc \in {"cleanup", "loop"})
            listed == passed \/ (i = idx /\ pc = "loop")
        IN /\ Count(calls.create, v) = (IF created THEN 1 ELSE 0)
           /\ Count(calls.list, v) = (IF listed THEN 1 ELSE 0)

\* a finished run over two volumes in which the first volume's create and
\* listing both failed and the second volume was still created and cleaned
C5_Witness ==
    /\ pc = "done"
    /\ Len(volumes) = 2
    /\ Len(calls.create) = 2 /\ Len(calls.list) = 2
    /\ ~calls.create[1].ok /\ ~calls.list[1].ok
    /\ calls.create[2].ok /\ calls.list[2].ok

----------------------------------------------------------------------------
(* C6 *)

\* C6: when discovery fails or returns no volume, the run ends at once and
\* has issued no create-snapshot, list-snapshots, delete-snapshot or publish.
C6_NoVolumesNoCalls ==
    (pc # "discover" /\ volumes = <<>>) =>
        /\ pc = "done"
        /\ calls.create = <<>>
        /\ calls.list = <<>>
        /\ calls.delete = {}
        /\ calls.publish = <<>>

\* discovery succeeded with an empty result while a topic is configured
C6_Witness ==
    /\ pc = "done"
    /\ volumes = <<>>
    /\ Len(calls.describe_volumes) = 1 /\ calls.describe_volumes[1].ok
    /\ Get(config, "sns_topic", None) # None

----------------------------------------------------------------------------
(* C7 *)

\* C7: publish is called at most once, only with a configured destination,
\* only after every discovered volume had its create and its cleanup
\* attempt, and its message lists exactly the identifiers returned by the
\* successful create-snapshot calls, with their count.
C7_OneSummaryAfterAllVolumes ==
    /\ Len(calls.publish) <= 1
    /\ calls.publish # <<>> =>
          LET p == calls.publish[1]
          IN /\ "sns_topic" \in DOMAIN config
             /\ p.topic = config["sns_topic"]
             /\ p.topic # None
             /\ volumes # <<>>
             /\ \A v \in Discovered :
                    Count(calls.create, v) = 1 /\ Count(calls.list, v) = 1
             /\ p.msg.ids = CreatedIds
             /\ p.msg.count = (IF CreatedIds = <<>> THEN <<>>
                               ELSE <<Len(CreatedIds)>>)

\* a message was published after one create failed and one succeeded
C7_Witness ==
    /\ calls.publish # <<>>
    /\ \E i, j \in 1..Len(calls.create) :
          ~calls.create[i].ok /\ calls.create[j].ok

----------------------------------------------------------------------------
(* C8 *)

\* C8: every run reaches its terminal state, whatever remote calls fail.
C8_RunTerminates == <>(pc = "done")

\* a finished run in which a create, a listing, a delete and the publish
\* all failed
C8_Witness ==
    /\ pc = "done"
    /\ \E i \in 1..Len(calls.create) : ~calls.create[i].ok
    /\ \E i \in 1..Len(calls.list) : ~calls.list[i].ok
    /\ \E d \in calls.delete : ~d.ok
    /\ calls.publish # <<>> /\ ~calls.publish[1].ok

----------------------------------------------------------------------------
(* C9 *)

\* C9: an option config.py does not supply takes its default: discovery is
\* called with tag key "Snapshot" and values {"Yes"} where config.py is
\* missing, broken or omits them, and with the supplied ones otherwise.
C9_OmittedOptionsTakeDefaults ==
    pc # "discover" =>
        /\ Len(calls.describe_volumes) = 1
        /\ calls.describe_volumes[1].filter =
              [key |-> Get(cfgSource.dict, "tagname", DEFAULT_CONFIG.tagname),
               values |-> Get(cfgSource.dict, "tagvalues",
                              DEFAULT_CONFIG.tagvalues)]

----------------------------------------------------------------------------
(* C10 *)

\* C10: no run issues delete-snapshot for a snapshot it created itself, for
\* any retention_days >= 0, so every identifier the run reports still
\* exists when the run ends.
C10_NeverDeletesOwnSnapshot ==
    \A d \in calls.delete : d.snap \notin CreatedSnaps

====
